---- MODULE Spec2Model ----
(***************************************************************************)
(* Ring buffer of Kurt Hildebrand (ringbuffer.h / ringbuffer.c, V1.0.0 and *)
(* V2.0.0): a fixed-capacity FIFO with two absolute unsigned cursors,      *)
(* front (read cursor) and back (write cursor), and RING_BUFFER_SIZE       *)
(* slots.  put() never checks for room; get() and peek() resynchronise     *)
(* the read cursor lazily.                                                 *)
(***************************************************************************)
EXTENDS Integers, Naturals, Sequences, FiniteSets, TLC

(* ------------------------------------------------------------------ *)
(* Constants and bounds                                                *)
(* ------------------------------------------------------------------ *)

\* #define RING_BUFFER_SIZE 4 (a power of two)
RING_BUFFER_SIZE == 4

\* Width in bits of `unsigned` (front, back).  The program has 32; the
\* model keeps the wraparound arithmetic and scales the width down.
CursorBits == 3

\* Values of ring_buffer_t handed to put(): 0..MaxVal.
MaxVal == 1

Modulus == 2 ^ CursorBits

Cursors == 0 .. (Modulus - 1)

Values == 0 .. MaxVal

Slots == 0 .. (RING_BUFFER_SIZE - 1)

\* Number of put() calls of the producer thread whose order is recorded.
MaxPuts == 5

\* Number of put() calls followed with unbounded cursors: enough for the
\* w-bit write cursor to wrap twice.
MaxWide == 2 * Modulus

\* Longest run of consecutive put() calls after init() whose length is
\* still counted by the history variable k (long enough for the write
\* cursor to wrap once and fill the buffer again).
MaxRun == Modulus + RING_BUFFER_SIZE

(* ------------------------------------------------------------------ *)
(* State                                                               *)
(* ------------------------------------------------------------------ *)

VARIABLES
  front,      \* rb->front, the read cursor
  back,       \* rb->back, the write cursor
  data,       \* rb->data[RING_BUFFER_SIZE]
  op,         \* the caller's view: the last operation called,
  arg,        \*   the value it was given (put)
  ret,        \*   and the value it returned
  \* history variables (they never influence the program's state)
  ref,        \* reference drop-oldest FIFO of capacity RING_BUFFER_SIZE
  want,       \* what the reference answers to the last get()/peek()
  gotEmpty,   \* get() was called on an empty buffer since init()
  wrapped,    \* back has wrapped from Modulus-1 to 0 since init()
  preEmpty,   \* empty() held right before the last operation
  phase,      \* "puts": only put() since init(); "drain": then only get()
  k,          \* number of put() calls of the "puts" phase
  win,        \* the last (at most RING_BUFFER_SIZE) values of that phase
  gets,       \* the values returned by the get() calls of the drain
  prev,       \* what the call before the last one was, when it matters:
              \*   <<"peek", value returned>>, <<"put", value put>> for a
              \*   put() on an empty buffer, <<"clear", 1 or 0>> for a
              \*   clear() of an empty or non-empty buffer, <<"get", 1>>
              \*   for a get() on an empty buffer, <<"-", 0>> otherwise
  dn          \* number of get() calls of the drain loop in progress,
              \*   while(!empty()) get(): consecutive get() calls, each on
              \*   a non-empty buffer, with only empty() called in between
VARIABLES
  \* one producer thread in put() and one consumer thread in
  \* while(!empty()) get(), step by step
  ppc,        \* producer: "idle", "read", "inced", "stored"
  pnew,       \* producer: the value of ++rb->back it computed
  pval,       \* producer: the argument var of the put() in progress
  cpc,        \* consumer: "idle", "check", "resync", "inc", "load"
  sent,       \* history: the values passed to put() so far
  \* history of the order of the puts, kept for the first MaxPuts calls
  nput,       \* number of put() calls made so far
  ptag,       \* the number (1, 2, ...) of the put() in progress
  tag,        \* for each slot, the number of the put() that stored its
              \*   content (0: the zero of init())
  gotTag,     \* the number of the put() whose value the last get() returned
  maxBefore,  \* the largest such number among the get() calls before it
  lost        \* more than MaxPuts calls of put(): the history has stopped
VARIABLES
  \* the same buffer with unbounded (mathematical) cursors, run beside the
  \* w-bit one
  ufront,     \* its read cursor
  uback,      \* its write cursor
  udata,      \* its slots
  uret        \* the value its last get()/peek() returned

wideVars == <<ufront, uback, udata, uret>>
VARIABLES
  \* the V1.0.0 implementation (index by bitwise AND), run beside V2.0.0
  front1,     \* rb->front
  back1,      \* rb->back
  data1,      \* rb->data[]
  ret1        \* the value its last call returned

v1Vars == <<front1, back1, data1, ret1>>

histVars == <<ref, want, gotEmpty, wrapped, preEmpty, phase, k, win, gets, prev, dn>>

ordVars == <<nput, ptag, tag, gotTag, maxBefore, lost>>

spscVars == <<ppc, pnew, pval, cpc, sent, nput, ptag, tag, gotTag, maxBefore, lost>>

vars == <<front, back, data, op, arg, ret,
          ref, want, gotEmpty, wrapped, preEmpty, phase, k, win, gets, prev, dn,
          ppc, pnew, pval, cpc, sent,
          nput, ptag, tag, gotTag, maxBefore, lost,
          ufront, uback, udata, uret,
          front1, back1, data1, ret1>>

(* ------------------------------------------------------------------ *)
(* Unsigned arithmetic and the pure functions of the code              *)
(* ------------------------------------------------------------------ *)

\* a - b on `unsigned`
Sub(a, b) == (a - b + Modulus) % Modulus

\* ++a on `unsigned`
Inc(a) == (a + 1) % Modulus

\* p % RING_BUFFER_SIZE, the slot of position p (V2.0.0)
Slot(p) == p % RING_BUFFER_SIZE

\* a & b on `unsigned`, bit by bit
RECURSIVE BitAnd(_, _)
BitAnd(a, b) ==
  IF a = 0 \/ b = 0 THEN 0
  ELSE (a % 2) * (b % 2) + 2 * BitAnd(a \div 2, b \div 2)

\* a mask that is one too small: p & (SIZE - 2)
Mask_OffByOne(p) == BitAnd(p, RING_BUFFER_SIZE - 2)

\* p & (RING_BUFFER_SIZE - 1), the slot of position p (V1.0.0)
Mask(p) == BitAnd(p, RING_BUFFER_SIZE - 1)

\* memset(rb->data, 0, ...)
ZeroData == [i \in Slots |-> 0]

\* full() with the difference taken as a signed int
Full_Signed(f, b) ==
  (IF Sub(b, f) >= Modulus \div 2 THEN Sub(b, f) - Modulus ELSE Sub(b, f))
    >= RING_BUFFER_SIZE

\* ring_buffer_full: rb->back - rb->front >= RING_BUFFER_SIZE
Full(f, b) == Sub(b, f) >= RING_BUFFER_SIZE

\* ring_buffer_empty: rb->back == rb->front
Empty(f, b) == b = f

\* count() without the test for a full buffer
Count_NoClamp(f, b) == Sub(b, f)

\* ring_buffer_count: full ? RING_BUFFER_SIZE : back - front
Count(f, b) == IF Full(f, b) THEN RING_BUFFER_SIZE ELSE Sub(b, f)

\* get()/peek() without the resynchronisation
Resync_Missing(f, b) == f

\* a resynchronisation to the write cursor itself
Resync_ToBack(f, b) == IF Sub(b, f) >= RING_BUFFER_SIZE THEN b ELSE f

\* a resynchronisation one position too far back:
\*   front = back - SIZE - 1
Resync_OffByOne(f, b) ==
  IF Sub(b, f) >= RING_BUFFER_SIZE THEN Sub(b, RING_BUFFER_SIZE + 1) ELSE f

\* The first statement of get() and peek():
\*   if(back - front >= SIZE) front = back - SIZE;
Resync(f, b) == IF Sub(b, f) >= RING_BUFFER_SIZE THEN Sub(b, RING_BUFFER_SIZE) ELSE f

\* put() with a post-increment: rb->data[(rb->back++) % SIZE]
PutSlot_PostInc(b) == Slot(b)

\* put() that stores one slot too far: data[(++rb->back + 1) % SIZE]
PutSlot_Skip(b) == Slot(Inc(Inc(b)))

\* The index put() stores at: (++rb->back) % SIZE, from the old back
PutSlot(b) == Slot(Inc(b))

\* clear() that rewinds the read cursor to 0
ClearFront_Zero(f, b) == 0

\* clear() that stores the distance instead of the cursor:
\*   rb->front = rb->back - rb->front
ClearFront_Distance(f, b) == Sub(b, f)

\* clear() without the assignment to rb->front
ClearFront_Kept(f, b) == f

\* clear(): rb->front = rb->back
ClearFront(f, b) == b

\* rb->front after ring_buffer_get
GetFront(f, b) == Inc(Resync(f, b))

\* get() with a post-increment: rb->data[(rb->front++) % SIZE]
GetValue_PostInc(f, b, d) == d[Slot(Resync(f, b))]

\* the value ring_buffer_get returns
GetValue(f, b, d) == d[Slot(GetFront(f, b))]

\* peek() that moves the read cursor as get() does
PeekFront_Advance(f, b) == Inc(Resync(f, b))

\* rb->front after peek(): resynchronised, not advanced
PeekFront(f, b) == Resync(f, b)

\* peek() that reads behind the stale read cursor
PeekValue_Stale(f, b, d) == d[Slot(Inc(f))]

\* the value ring_buffer_peek returns
PeekValue(f, b, d) == d[Slot(Inc(Resync(f, b)))]

(* ------------------------------------------------------------------ *)
(* The reference FIFO and the history of a run                         *)
(* ------------------------------------------------------------------ *)

NoValue == 0 - 1

\* append x, dropping the head when the length would exceed the capacity
RefPut(s, x) ==
  IF Len(s) < RING_BUFFER_SIZE THEN Append(s, x) ELSE Append(Tail(s), x)

RefHead(s) == IF Len(s) > 0 THEN Head(s) ELSE NoValue

RefTail(s) == IF Len(s) > 0 THEN Tail(s) ELSE s

IsPrefix(s, t) == Len(s) <= Len(t) /\ s = SubSeq(t, 1, Len(s))

\* the summary of the current last call that the next call records in prev
Summary ==
  IF op = "peek" THEN <<"peek", ret>>
  ELSE IF op = "put" /\ preEmpty THEN <<"put", arg>>
  ELSE IF op = "clear" THEN <<"clear", IF preEmpty THEN 1 ELSE 0>>
  ELSE IF op = "get" /\ preEmpty THEN <<"get", 1>>
  ELSE <<"-", 0>>

(* ------------------------------------------------------------------ *)
(* Initial state: ring_buffer_init() has run (main.c:10)               *)
(* ------------------------------------------------------------------ *)

Init ==
  /\ front = 0
  /\ back = 0
  /\ data = ZeroData
  /\ op = "init"
  /\ arg = 0
  /\ ret = 0
  /\ ref = << >>
  /\ want = NoValue
  /\ gotEmpty = FALSE
  /\ wrapped = FALSE
  /\ preEmpty = TRUE
  /\ phase = "puts"
  /\ k = 0
  /\ win = << >>
  /\ gets = << >>
  /\ prev = <<"-", 0>>
  /\ dn = 0
  /\ ppc = "idle"
  /\ pnew = 0
  /\ pval = 0
  /\ cpc = "idle"
  /\ sent = {}
  /\ nput = 0
  /\ ptag = 0
  /\ tag = ZeroData
  /\ gotTag = 0
  /\ maxBefore = 0
  /\ lost = FALSE
  /\ ufront = 0
  /\ uback = 0
  /\ udata = ZeroData
  /\ uret = 0
  /\ front1 = 0
  /\ back1 = 0
  /\ data1 = ZeroData
  /\ ret1 = 0

(* ------------------------------------------------------------------ *)
(* The operations, single-threaded: each is one call                   *)
(* ------------------------------------------------------------------ *)

ring_buffer_init ==
  /\ front' = 0
  /\ back' = 0
  /\ data' = ZeroData
  /\ op' = "init"
  /\ arg' = 0
  /\ ret' = 0
  /\ ref' = << >>
  /\ want' = NoValue
  /\ gotEmpty' = FALSE
  /\ wrapped' = FALSE
  /\ preEmpty' = Empty(front, back)
  /\ prev' = Summary
  /\ dn' = 0
  /\ UNCHANGED spscVars
  /\ UNCHANGED wideVars
  /\ UNCHANGED v1Vars
  /\ phase' = "puts"
  /\ k' = 0
  /\ win' = << >>
  /\ gets' = << >>

ring_buffer_clear ==
  /\ data' = ZeroData
  /\ front' = ClearFront(front, back)
  /\ back' = back
  /\ op' = "clear"
  /\ arg' = 0
  /\ ret' = 0
  /\ ref' = << >>
  /\ want' = NoValue
  /\ preEmpty' = Empty(front, back)
  /\ prev' = Summary
  /\ dn' = 0
  /\ UNCHANGED spscVars
  /\ UNCHANGED wideVars
  /\ UNCHANGED v1Vars
  /\ phase' = "other"
  /\ k' = 0
  /\ win' = << >>
  /\ gets' = << >>
  /\ UNCHANGED <<gotEmpty, wrapped>>

ring_buffer_put ==
  \E var \in Values :
    /\ back' = Inc(back)
    /\ data' = [data EXCEPT ![PutSlot(back)] = var]
    /\ front' = front
    /\ op' = "put"
    /\ arg' = var
    /\ ret' = 0
    /\ ref' = RefPut(ref, var)
    /\ want' = NoValue
    /\ wrapped' = (wrapped \/ Inc(back) = 0)
    /\ preEmpty' = Empty(front, back)
    /\ prev' = Summary
    /\ dn' = 0
    /\ UNCHANGED spscVars
    /\ UNCHANGED wideVars
    /\ UNCHANGED v1Vars
    /\ IF phase = "puts" /\ k < MaxRun
         THEN /\ phase' = "puts"
              /\ k' = k + 1
              /\ win' = RefPut(win, var)
         ELSE /\ phase' = "other"
              /\ k' = 0
              /\ win' = << >>
    /\ gets' = << >>
    /\ UNCHANGED gotEmpty

ring_buffer_get ==
  /\ front' = GetFront(front, back)
  /\ ret' = GetValue(front, back, data)
  /\ UNCHANGED <<back, data>>
  /\ op' = "get"
  /\ arg' = 0
  /\ ref' = RefTail(ref)
  /\ want' = RefHead(ref)
  /\ gotEmpty' = (gotEmpty \/ Empty(front, back))
  /\ preEmpty' = Empty(front, back)
  /\ prev' = Summary
  /\ dn' = (IF Empty(front, back) THEN 0 ELSE dn + 1)
  /\ UNCHANGED spscVars
  /\ UNCHANGED wideVars
  /\ UNCHANGED v1Vars
  /\ IF phase \in {"puts", "drain"} /\ k >= 1 /\ Len(gets) < Len(win)
        /\ ~Empty(front, back)
       THEN /\ phase' = "drain"
            /\ gets' = Append(gets, GetValue(front, back, data))
            /\ UNCHANGED <<k, win>>
       ELSE /\ phase' = "other"
            /\ k' = 0
            /\ win' = << >>
            /\ gets' = << >>
  /\ UNCHANGED wrapped

ring_buffer_peek ==
  /\ front' = PeekFront(front, back)
  /\ ret' = PeekValue(front, back, data)
  /\ UNCHANGED <<back, data>>
  /\ op' = "peek"
  /\ arg' = 0
  /\ want' = RefHead(ref)
  /\ preEmpty' = Empty(front, back)
  /\ prev' = Summary
  /\ dn' = 0
  /\ UNCHANGED spscVars
  /\ UNCHANGED wideVars
  /\ UNCHANGED v1Vars
  /\ UNCHANGED <<ref, gotEmpty, wrapped, phase, k, win, gets>>

ring_buffer_count ==
  /\ ret' = Count(front, back)
  /\ op' = "count"
  /\ arg' = 0
  /\ want' = NoValue
  /\ preEmpty' = Empty(front, back)
  /\ prev' = Summary
  /\ dn' = 0
  /\ UNCHANGED spscVars
  /\ UNCHANGED wideVars
  /\ UNCHANGED v1Vars
  /\ UNCHANGED <<front, back, data>>
  /\ UNCHANGED <<ref, gotEmpty, wrapped, phase, k, win, gets>>

ring_buffer_full ==
  /\ ret' = (IF Full(front, back) THEN 1 ELSE 0)
  /\ op' = "full"
  /\ arg' = 0
  /\ want' = NoValue
  /\ preEmpty' = Empty(front, back)
  /\ prev' = Summary
  /\ dn' = 0
  /\ UNCHANGED spscVars
  /\ UNCHANGED wideVars
  /\ UNCHANGED v1Vars
  /\ UNCHANGED <<front, back, data>>
  /\ UNCHANGED <<ref, gotEmpty, wrapped, phase, k, win, gets>>

ring_buffer_empty ==
  /\ ret' = (IF Empty(front, back) THEN 1 ELSE 0)
  /\ op' = "empty"
  /\ arg' = 0
  /\ want' = NoValue
  /\ preEmpty' = Empty(front, back)
  /\ prev' = Summary
  /\ dn' = dn
  /\ UNCHANGED spscVars
  /\ UNCHANGED wideVars
  /\ UNCHANGED v1Vars
  /\ UNCHANGED <<front, back, data>>
  /\ UNCHANGED <<ref, gotEmpty, wrapped, phase, k, win, gets>>

Next ==
  \/ ring_buffer_init
  \/ ring_buffer_clear
  \/ ring_buffer_put
  \/ ring_buffer_get
  \/ ring_buffer_peek
  \/ ring_buffer_count
  \/ ring_buffer_full
  \/ ring_buffer_empty

Spec == Init /\ [][Next]_vars

(* ------------------------------------------------------------------ *)
(* One producer and one consumer, at the granularity of the reads and  *)
(* writes of the volatile cursors and slots                            *)
(* ------------------------------------------------------------------ *)

\* Producer, rb->data[(++rb->back) % SIZE] = var: the call and the read
\* of rb->back.
P_call ==
  /\ ppc = "idle"
  /\ \E var \in Values :
       /\ pval' = var
       /\ sent' = sent \cup {var}
  /\ pnew' = Inc(back)
  /\ ppc' = "read"
  /\ UNCHANGED <<front, back, data, op, arg, ret, cpc>>
  /\ UNCHANGED histVars
  /\ UNCHANGED wideVars
  /\ UNCHANGED v1Vars
  /\ IF ~lost /\ nput < MaxPuts
       THEN /\ nput' = nput + 1
            /\ ptag' = nput + 1
            /\ UNCHANGED <<tag, gotTag, maxBefore, lost>>
       ELSE /\ lost' = TRUE
            /\ ptag' = 0
            /\ tag' = ZeroData
            /\ gotTag' = 0
            /\ maxBefore' = 0
            /\ UNCHANGED nput

\* Producer: the write of rb->back.  The two stores of the statement are
\* unsequenced, so that a build may emit them in either order.
P_inc ==
  /\ ppc \in {"read", "stored"}
  /\ back' = pnew
  /\ ppc' = (IF ppc = "read" THEN "inced" ELSE "idle")
  /\ UNCHANGED <<front, data, op, arg, ret, pnew, pval, cpc, sent>>
  /\ UNCHANGED histVars
  /\ UNCHANGED wideVars
  /\ UNCHANGED v1Vars
  /\ UNCHANGED ordVars

\* Producer: the write of the slot.
P_store ==
  /\ ppc \in {"read", "inced"}
  /\ data' = [data EXCEPT ![Slot(pnew)] = pval]
  /\ ppc' = (IF ppc = "read" THEN "stored" ELSE "idle")
  /\ UNCHANGED <<front, back, op, arg, ret, pnew, pval, cpc, sent>>
  /\ UNCHANGED histVars
  /\ UNCHANGED wideVars
  /\ UNCHANGED v1Vars
  /\ tag' = (IF lost THEN tag ELSE [tag EXCEPT ![Slot(pnew)] = ptag])
  /\ UNCHANGED <<nput, ptag, gotTag, maxBefore, lost>>

\* Consumer, while(!ring_buffer_empty(&rb)): the read of rb->back and its
\* comparison with rb->front, which only the consumer writes.
C_empty ==
  /\ cpc = "idle"
  /\ op' = "empty"
  /\ ret' = (IF Empty(front, back) THEN 1 ELSE 0)
  /\ cpc' = (IF Empty(front, back) THEN "idle" ELSE "check")
  /\ UNCHANGED <<front, back, data, arg, ppc, pnew, pval, sent>>
  /\ UNCHANGED histVars
  /\ UNCHANGED wideVars
  /\ UNCHANGED v1Vars
  /\ UNCHANGED ordVars

\* Consumer, get(): if(rb->back - rb->front >= SIZE)
C_check ==
  /\ cpc = "check"
  /\ cpc' = (IF Sub(back, front) >= RING_BUFFER_SIZE THEN "resync" ELSE "inc")
  /\ UNCHANGED <<front, back, data, op, arg, ret, ppc, pnew, pval, sent>>
  /\ UNCHANGED histVars
  /\ UNCHANGED wideVars
  /\ UNCHANGED v1Vars
  /\ UNCHANGED ordVars

\* Consumer, get(): rb->front = rb->back - SIZE (rb->back is read again)
C_resync ==
  /\ cpc = "resync"
  /\ front' = Sub(back, RING_BUFFER_SIZE)
  /\ cpc' = "inc"
  /\ UNCHANGED <<back, data, op, arg, ret, ppc, pnew, pval, sent>>
  /\ UNCHANGED histVars
  /\ UNCHANGED wideVars
  /\ UNCHANGED v1Vars
  /\ UNCHANGED ordVars

\* Consumer, get(): ++rb->front
C_inc ==
  /\ cpc = "inc"
  /\ front' = Inc(front)
  /\ cpc' = "load"
  /\ UNCHANGED <<back, data, op, arg, ret, ppc, pnew, pval, sent>>
  /\ UNCHANGED histVars
  /\ UNCHANGED wideVars
  /\ UNCHANGED v1Vars
  /\ UNCHANGED ordVars

\* Consumer, get(): return rb->data[front % SIZE]
C_load ==
  /\ cpc = "load"
  /\ ret' = data[Slot(front)]
  /\ op' = "get"
  /\ cpc' = "idle"
  /\ UNCHANGED <<front, back, data, arg, ppc, pnew, pval, sent>>
  /\ UNCHANGED histVars
  /\ UNCHANGED wideVars
  /\ UNCHANGED v1Vars
  /\ gotTag' = (IF lost THEN 0 ELSE tag[Slot(front)])
  /\ maxBefore' = (IF lost THEN 0
                   ELSE IF gotTag > maxBefore THEN gotTag ELSE maxBefore)
  /\ UNCHANGED <<nput, ptag, tag, lost>>

NextSPSC ==
  \/ P_call
  \/ P_inc
  \/ P_store
  \/ C_empty
  \/ C_check
  \/ C_resync
  \/ C_inc
  \/ C_load

SpecSPSC == Init /\ [][NextSPSC]_vars

(* ------------------------------------------------------------------ *)
(* The operations on w-bit cursors and, beside them, on unbounded      *)
(* cursors; get() and peek() are called on a non-empty buffer only     *)
(* ------------------------------------------------------------------ *)

\* the pure functions of the code, on unbounded cursors
UFull(f, b) == b - f >= RING_BUFFER_SIZE

UEmpty(f, b) == b = f

UCount(f, b) == IF UFull(f, b) THEN RING_BUFFER_SIZE ELSE b - f

UResync(f, b) == IF b - f >= RING_BUFFER_SIZE THEN b - RING_BUFFER_SIZE ELSE f

W_clear ==
  /\ data' = ZeroData
  /\ front' = ClearFront(front, back)
  /\ back' = back
  /\ udata' = ZeroData
  /\ ufront' = uback
  /\ uback' = uback
  /\ op' = "clear"
  /\ ret' = 0
  /\ uret' = 0
  /\ UNCHANGED arg
  /\ UNCHANGED histVars
  /\ UNCHANGED spscVars
  /\ UNCHANGED v1Vars

W_put ==
  /\ uback < MaxWide
  /\ \E var \in Values :
       /\ back' = Inc(back)
       /\ data' = [data EXCEPT ![PutSlot(back)] = var]
       /\ uback' = uback + 1
       /\ udata' = [udata EXCEPT ![(uback + 1) % RING_BUFFER_SIZE] = var]
       /\ arg' = var
  /\ UNCHANGED <<front, ufront>>
  /\ op' = "put"
  /\ ret' = 0
  /\ uret' = 0
  /\ UNCHANGED histVars
  /\ UNCHANGED spscVars
  /\ UNCHANGED v1Vars

W_get ==
  /\ ~Empty(front, back)
  /\ front' = GetFront(front, back)
  /\ ret' = GetValue(front, back, data)
  /\ ufront' = UResync(ufront, uback) + 1
  /\ uret' = udata[(UResync(ufront, uback) + 1) % RING_BUFFER_SIZE]
  /\ op' = "get"
  /\ UNCHANGED <<back, data, uback, udata, arg>>
  /\ UNCHANGED histVars
  /\ UNCHANGED spscVars
  /\ UNCHANGED v1Vars

W_peek ==
  /\ ~Empty(front, back)
  /\ front' = PeekFront(front, back)
  /\ ret' = PeekValue(front, back, data)
  /\ ufront' = UResync(ufront, uback)
  /\ uret' = udata[(UResync(ufront, uback) + 1) % RING_BUFFER_SIZE]
  /\ op' = "peek"
  /\ UNCHANGED <<back, data, uback, udata, arg>>
  /\ UNCHANGED histVars
  /\ UNCHANGED spscVars
  /\ UNCHANGED v1Vars

NextWide ==
  \/ W_clear
  \/ W_put
  \/ W_get
  \/ W_peek

SpecWide == Init /\ [][NextWide]_vars

(* ------------------------------------------------------------------ *)
(* V1.0.0 (ringbuffer.c, index by & (SIZE - 1)) and V2.0.0             *)
(* (ringbuffer.h, index by % SIZE) given the same calls                *)
(* ------------------------------------------------------------------ *)

E_init ==
  /\ front' = 0
  /\ back' = 0
  /\ data' = ZeroData
  /\ front1' = 0
  /\ back1' = 0
  /\ data1' = ZeroData
  /\ op' = "init"
  /\ arg' = 0
  /\ ret' = 0
  /\ ret1' = 0
  /\ UNCHANGED histVars
  /\ UNCHANGED spscVars
  /\ UNCHANGED wideVars

E_clear ==
  /\ data' = ZeroData
  /\ front' = ClearFront(front, back)
  /\ back' = back
  /\ data1' = ZeroData
  /\ front1' = back1
  /\ back1' = back1
  /\ op' = "clear"
  /\ arg' = 0
  /\ ret' = 0
  /\ ret1' = 0
  /\ UNCHANGED histVars
  /\ UNCHANGED spscVars
  /\ UNCHANGED wideVars

E_put ==
  /\ \E var \in Values :
       /\ back' = Inc(back)
       /\ data' = [data EXCEPT ![PutSlot(back)] = var]
       /\ back1' = Inc(back1)
       /\ data1' = [data1 EXCEPT ![Mask(Inc(back1))] = var]
       /\ arg' = var
  /\ UNCHANGED <<front, front1>>
  /\ op' = "put"
  /\ ret' = 0
  /\ ret1' = 0
  /\ UNCHANGED histVars
  /\ UNCHANGED spscVars
  /\ UNCHANGED wideVars

E_get ==
  /\ front' = GetFront(front, back)
  /\ ret' = GetValue(front, back, data)
  /\ front1' = Inc(Resync(front1, back1))
  /\ ret1' = data1[Mask(Inc(Resync(front1, back1)))]
  /\ UNCHANGED <<back, data, back1, data1>>
  /\ op' = "get"
  /\ arg' = 0
  /\ UNCHANGED histVars
  /\ UNCHANGED spscVars
  /\ UNCHANGED wideVars

NextV1V2 ==
  \/ E_init
  \/ E_clear
  \/ E_put
  \/ E_get

SpecV1V2 == Init /\ [][NextV1V2]_vars

(* ------------------------------------------------------------------ *)
(* One caller, get() statement by statement (front is volatile: each   *)
(* store to it is a state of its own)                                  *)
(* ------------------------------------------------------------------ *)

othVars == <<ref, want, gotEmpty, wrapped, phase, k, win, gets, dn,
             ppc, pnew, pval, sent>>

S_put ==
  /\ cpc = "idle"
  /\ \E var \in Values :
       /\ back' = Inc(back)
       /\ data' = [data EXCEPT ![PutSlot(back)] = var]
       /\ arg' = var
  /\ op' = "put"
  /\ ret' = 0
  /\ preEmpty' = Empty(front, back)
  /\ prev' = Summary
  /\ UNCHANGED <<front, cpc>>
  /\ UNCHANGED <<othVars, ordVars, wideVars, v1Vars>>

\* get(): if(rb->back - rb->front >= RING_BUFFER_SIZE)
G_check ==
  /\ cpc = "idle"
  /\ cpc' = (IF Sub(back, front) >= RING_BUFFER_SIZE THEN "resync" ELSE "inc")
  /\ op' = "get"
  /\ arg' = 0
  /\ ret' = 0
  /\ preEmpty' = Empty(front, back)
  /\ prev' = Summary
  /\ UNCHANGED <<front, back, data>>
  /\ UNCHANGED <<othVars, ordVars, wideVars, v1Vars>>

\* get(): rb->front = rb->back - RING_BUFFER_SIZE
G_resync ==
  /\ cpc = "resync"
  /\ front' = Sub(back, RING_BUFFER_SIZE)
  /\ cpc' = "inc"
  /\ UNCHANGED <<back, data, op, arg, ret, preEmpty, prev>>
  /\ UNCHANGED <<othVars, ordVars, wideVars, v1Vars>>

\* get(): return rb->data[(++rb->front) % RING_BUFFER_SIZE]
G_return ==
  /\ cpc = "inc"
  /\ front' = Inc(front)
  /\ ret' = data[Slot(Inc(front))]
  /\ cpc' = "idle"
  /\ UNCHANGED <<back, data, op, arg, preEmpty, prev>>
  /\ UNCHANGED <<othVars, ordVars, wideVars, v1Vars>>

S_count ==
  /\ cpc = "idle"
  /\ ret' = Count(front, back)
  /\ op' = "count"
  /\ arg' = 0
  /\ preEmpty' = Empty(front, back)
  /\ prev' = Summary
  /\ UNCHANGED <<front, back, data, cpc>>
  /\ UNCHANGED <<othVars, ordVars, wideVars, v1Vars>>

S_full ==
  /\ cpc = "idle"
  /\ ret' = (IF Full(front, back) THEN 1 ELSE 0)
  /\ op' = "full"
  /\ arg' = 0
  /\ preEmpty' = Empty(front, back)
  /\ prev' = Summary
  /\ UNCHANGED <<front, back, data, cpc>>
  /\ UNCHANGED <<othVars, ordVars, wideVars, v1Vars>>

S_empty ==
  /\ cpc = "idle"
  /\ ret' = (IF Empty(front, back) THEN 1 ELSE 0)
  /\ op' = "empty"
  /\ arg' = 0
  /\ preEmpty' = Empty(front, back)
  /\ prev' = Summary
  /\ UNCHANGED <<front, back, data, cpc>>
  /\ UNCHANGED <<othVars, ordVars, wideVars, v1Vars>>

NextStmt ==
  \/ S_put
  \/ G_check
  \/ G_resync
  \/ G_return
  \/ S_count
  \/ S_full
  \/ S_empty

SpecStmt == Init /\ [][NextStmt]_vars

TypeOK ==
  /\ front \in Cursors
  /\ back \in Cursors
  /\ data \in [Slots -> Values]
  /\ Len(ref) <= RING_BUFFER_SIZE
  /\ front1 \in Cursors
  /\ back1 \in Cursors
  /\ data1 \in [Slots -> Values]
  /\ cpc \in {"idle", "check", "resync", "inc", "load"}

(* ------------------------------------------------------------------ *)
(* Properties                                                          *)
(* ------------------------------------------------------------------ *)

N == RING_BUFFER_SIZE

\* C1: as long as get() was never called on an empty buffer, the buffer
\* behaves like the reference drop-oldest FIFO: get() and peek() (on a
\* non-empty buffer) return the reference head, count() is the reference
\* length, full() iff that length is N, empty() iff it is 0.
C1_RefinesFifo ==
  ~gotEmpty =>
    /\ Count(front, back) = Len(ref)
    /\ Full(front, back) <=> (Len(ref) = N)
    /\ Empty(front, back) <=> (Len(ref) = 0)
    /\ (op = "get" => ret = want)
    /\ (op = "peek" /\ ~preEmpty => ret = want)
    /\ (op = "count" => ret = Len(ref))

\* C2: after k > N consecutive put() calls on a fresh buffer, full() is
\* true and count() is N, and the drain returns exactly the last N values
\* put, in order, after which (and not before) empty() is true.
C2_LastNRetained ==
  /\ (phase = "puts" /\ k > N) =>
        /\ Full(front, back)
        /\ Count(front, back) = N
        /\ ~Empty(front, back)
  /\ (phase = "drain" /\ k > N) =>
        /\ IsPrefix(gets, win)
        /\ Len(win) = N
        /\ (Len(gets) = N) <=> Empty(front, back)

\* C3: after k consecutive put() calls on a fresh buffer, 1 <= k <= N,
\* count() returns k, and k get() calls return the k values put, in
\* insertion order, leaving empty() true (and not before).
C3_UpToNPuts ==
  /\ (phase = "puts" /\ 1 <= k /\ k <= N) =>
        /\ Count(front, back) = k
        /\ Len(win) = k
        /\ (op = "count" => ret = k)
  /\ (phase = "drain" /\ k <= N) =>
        /\ IsPrefix(gets, win)
        /\ Len(win) = k
        /\ (Len(gets) = k) <=> Empty(front, back)

\* C3 witness: N values, not all equal, were put and all were drained.
C3_Witness ==
  /\ phase = "drain"
  /\ k = N
  /\ Len(gets) = N
  /\ gets[1] # gets[2]
  /\ op = "get"

\* C4: with one producer and one consumer, every get() issued after the
\* consumer saw empty() false returns a value that was passed to put().
C4_GetReturnsPutValue == op = "get" => ret \in sent

\* C4: the consumer never loads a slot whose put() has advanced the
\* write cursor but not yet stored its value.
C4_NoLoadOfPendingSlot ==
  ~(cpc = "load" /\ ppc = "inced" /\ Slot(front) = Slot(pnew))

\* C5 (as stated): write_cursor >= read_cursor in every reachable state.
C5_Original == back >= front

\* C5 (amended): as long as get() was never called on an empty buffer and
\* the write cursor has not wrapped past 2^w - 1 since init(),
\* write_cursor >= read_cursor.
C5_Amended == (~gotEmpty /\ ~wrapped) => back >= front

\* C5 witness: a get() on a full buffer resynchronised the read cursor.
C5_Witness ==
  /\ ~gotEmpty
  /\ ~wrapped
  /\ op = "get"
  /\ front = Sub(back, N - 1)
  /\ front > 1

\* C6 (as stated): write_cursor - read_cursor <= N in every reachable
\* state, put() on a full buffer forcing the read cursor forward.
C6_Original == back - front <= N

\* C6 (amended): put() never moves the read cursor; the next peek(), or
\* the next get() on a non-empty buffer, forces it forward, so right after
\* these calls (write_cursor - read_cursor) mod 2^w <= N.
C6_Amended ==
  (op = "peek" \/ (op = "get" /\ ~preEmpty)) => Sub(back, front) <= N

\* C6 witness: a peek() found more than N unread puts: the read cursor,
\* which put() left at 0, now is N behind the write cursor.
C6_Witness ==
  /\ op = "peek"
  /\ phase = "puts"
  /\ k > N
  /\ front # 0
  /\ Sub(back, front) = N

\* C7: count() is in [0, N] in every reachable state.
C7_CountInRange ==
  /\ Count(front, back) \in 0 .. N
  /\ (op = "count" => ret \in 0 .. N)

\* C7 witness: count() returned N with more than N unread puts.
C7_Witness ==
  /\ op = "count"
  /\ ret = N
  /\ Sub(back, front) > N

\* C8: peek() then get() return the same value, and the read cursor after
\* the pair is where a get() alone would have left it.
C8_PeekThenGet ==
  [][ /\ (op' = "peek" => GetFront(front', back') = GetFront(front, back))
      /\ (op' = "get" /\ prev'[1] = "peek" => ret' = prev'[2]) ]_vars

\* C8 witness: a get() right after a peek(), on a buffer that had been
\* overrun (the peek resynchronised the read cursor), returned a put value.
C8_Witness ==
  /\ op = "get"
  /\ prev[1] = "peek"
  /\ Sub(back, front) = N - 1
  /\ ret = 1

\* C9: on an empty buffer, put(x) then get() returns x and leaves the
\* buffer empty.
C9_RoundTrip ==
  (op = "get" /\ prev[1] = "put") =>
     /\ ret = prev[2]
     /\ Empty(front, back)

\* C9 witness: the round trip happened after the cursors had wrapped.
C9_Witness ==
  /\ op = "get"
  /\ prev = <<"put", 1>>
  /\ wrapped
  /\ ret = 1

\* C10: right after init() and right after clear(), empty() is true,
\* count() is 0 and full() is false.
C10_EmptyAfterReset ==
  op \in {"init", "clear"} =>
     /\ Empty(front, back)
     /\ Count(front, back) = 0
     /\ ~Full(front, back)

\* C10 witness: clear() emptied a non-empty buffer whose cursors are not 0.
C10_Witness ==
  /\ op = "clear"
  /\ ~preEmpty
  /\ back # 0

\* C11: from any reachable state the drain loop while(!empty()) get()
\* makes at most N get() calls: a run of get() calls on a non-empty buffer
\* never exceeds N calls, and after the N-th the buffer is empty, so that
\* the loop ends.
C11_DrainTerminates ==
  /\ dn <= N
  /\ (dn = N => Empty(front, back))

\* C11 witness: after init() and a get() on the empty buffer (no put at
\* all), the drain loop made N get() calls and found the buffer empty.
C11_Witness ==
  /\ dn = N
  /\ gotEmpty
  /\ ~wrapped
  /\ back = 0
  /\ Empty(front, back)

\* C12: a second clear() right after a clear() changes neither cursor nor
\* any slot, nor what count(), full() and empty() return.
C12_ClearIdempotent ==
  [][ (op = "clear" /\ op' = "clear") =>
        /\ front' = front
        /\ back' = back
        /\ data' = data
        /\ Count(front', back') = Count(front, back)
        /\ Full(front', back') = Full(front, back)
        /\ Empty(front', back') = Empty(front, back) ]_vars

\* C12 witness: clear() was called twice in a row, the first time on a
\* non-empty buffer whose write cursor is not 0.
C12_Witness ==
  /\ op = "clear"
  /\ prev = <<"clear", 0>>
  /\ back # 0
  /\ Empty(front, back)

\* C13: with one producer and one consumer, the values successive get()
\* calls return appear in the order of their put() calls: a get() never
\* returns the value of a put() that an earlier get() already returned,
\* nor one put before a value already returned.
C13_GetsInPutOrder ==
  (~lost /\ op = "get" /\ gotTag # 0) => gotTag > maxBefore

\* C14 (as stated): no step of put, get, peek or clear decreases a
\* cursor, except the increment that wraps it from 2^w - 1 to 0.
C14_Original ==
  [][ op' \in {"put", "get", "peek", "clear"} =>
        /\ (back' >= back \/ (back = Modulus - 1 /\ back' = 0))
        /\ (front' >= front \/ (front = Modulus - 1 /\ front' = 0)) ]_vars

\* C14 (amended): except for a get() called on an empty buffer, no step
\* of put, get, peek or clear moves a cursor backwards modulo 2^w: the
\* write cursor stays or is incremented by one, and the read cursor
\* advances by at most (write_cursor - read_cursor) mod 2^w, so that it
\* never passes the write cursor.
C14_Amended ==
  [][ (op' \in {"put", "get", "peek", "clear"}
         /\ ~(op' = "get" /\ Empty(front, back))) =>
        /\ Sub(back', back) \in {0, 1}
        /\ Sub(front', front) <= Sub(back, front) ]_vars

\* C14 witness: after the write cursor wrapped, a get() on a full buffer
\* left the read cursor N - 1 behind it, numerically above it.
C14_Witness ==
  /\ op = "get"
  /\ ~gotEmpty
  /\ wrapped
  /\ Sub(back, front) = N - 1
  /\ front > back

\* C15: with w-bit cursors, get() and peek() return the same values and
\* count(), full() and empty() the same results as with unbounded
\* cursors, also after the cursors have wrapped.
C15_SameAsUnbounded ==
  /\ Count(front, back) = UCount(ufront, uback)
  /\ Full(front, back) = UFull(ufront, uback)
  /\ Empty(front, back) = UEmpty(ufront, uback)
  /\ (op \in {"get", "peek"} => ret = uret)

\* C16: given the same init/clear/put/get calls, V1.0.0 (& (N - 1)) and
\* V2.0.0 (% N) hold the same cursors and slots after every call, and
\* get(), count(), full() and empty() return the same values.
C16_V1EqualsV2 ==
  /\ front1 = front
  /\ back1 = back
  /\ data1 = data
  /\ ret1 = ret
  /\ Count(front1, back1) = Count(front, back)
  /\ Full(front1, back1) = Full(front, back)
  /\ Empty(front1, back1) = Empty(front, back)

\* C16 witness: both versions returned a put value from get() after their
\* write cursors had wrapped past 2^w - 1.
C16_Witness ==
  /\ op = "get"
  /\ ret1 = 1
  /\ ret = 1
  /\ front1 > back1
  /\ Sub(back1, front1) = N - 1

\* C17: every clear() leaves write_cursor as it was, sets read_cursor to
\* write_cursor and sets every storage slot to zero.
C17_ClearEffect ==
  [][ op' = "clear" =>
        /\ back' = back
        /\ front' = back
        /\ \A i \in Slots : data'[i] = 0 ]_vars

\* C17 witness: clear() has acted on a non-empty buffer whose write
\* cursor is past N, and the cursor is still there.
C17_Witness ==
  /\ op = "clear"
  /\ ~preEmpty
  /\ back > N
  /\ front = back
  /\ data = ZeroData

\* C18: peek() leaves write_cursor and every slot unchanged; it leaves
\* read_cursor unchanged when write_cursor - read_cursor < N on entry and
\* otherwise sets it to write_cursor - N.
C18_PeekEffect ==
  [][ op' = "peek" =>
        /\ back' = back
        /\ data' = data
        /\ (Sub(back, front) < N => front' = front)
        /\ (Sub(back, front) >= N => front' = Sub(back, N)) ]_vars

\* C18 witness: N + 1 puts since init() and then only peek(): the read
\* cursor has been resynchronised from 0 to write_cursor - N = 1.
C18_Witness ==
  /\ op = "peek"
  /\ phase = "puts"
  /\ k = N + 1
  /\ back = N + 1
  /\ front = Sub(back, N)

\* C19: put() changes only write_cursor and the slot (write_cursor + 1)
\* mod N, never read_cursor; get() and peek() change only read_cursor;
\* count(), full() and empty() change no cursor and no slot.
C19_SingleWriter ==
  [][ /\ op' = "put" =>
           /\ front' = front
           /\ \A i \in Slots : i # (back + 1) % N => data'[i] = data[i]
      /\ op' \in {"get", "peek"} =>
           /\ back' = back
           /\ data' = data
      /\ op' \in {"count", "full", "empty"} =>
           /\ front' = front
           /\ back' = back
           /\ data' = data ]_vars

\* C19 witness: a put() has just wrapped write_cursor to 0 and stored a 1
\* in slot 0, with unread elements behind an untouched read_cursor.
C19_Witness ==
  /\ op = "put"
  /\ wrapped
  /\ back = 0
  /\ arg = 1
  /\ data[0] = 1
  /\ front = Modulus - 2

\* C20: a get() on an empty buffer returns a value like any other and
\* leaves read_cursor = write_cursor + 1, so write_cursor - read_cursor is
\* 2^w - 1; the call right after it finds empty() false, full() true and
\* count() N, and a get() right after it takes the resynchronisation,
\* which sets read_cursor to write_cursor - N.
C20_GetOnEmpty ==
  [][ /\ (op = "get" /\ preEmpty /\ cpc = "idle") =>
           /\ ret \in Values
           /\ front = Inc(back)
           /\ Sub(back, front) = Modulus - 1
           /\ op' = "empty" => ret' = 0
           /\ op' = "full" => ret' = 1
           /\ op' = "count" => ret' = N
           /\ op' = "get" => cpc' = "resync"
      /\ (op = "get" /\ prev = <<"get", 1>> /\ cpc = "resync") =>
           front' = Sub(back, N) ]_vars

\* C20 witness: after some puts, a get() on an empty buffer, and the next
\* get() has just resynchronised read_cursor to write_cursor - N.
C20_Witness ==
  /\ op = "get"
  /\ prev = <<"get", 1>>
  /\ cpc = "inc"
  /\ back # 0
  /\ front = Sub(back, N)

====
